---- MODULE Spec2Model ----
(***************************************************************************)
(* A model of gabber's client (src/gabber/client.py): the Client object    *)
(* with its session counter and cookie, the request wrapper _get, the      *)
(* login get_sess_cookie, the fetchers pull_user / pull_group, the         *)
(* paginators pull_statuses / pull_group_posts, find_latest_user, and the  *)
(* two commands (posts, groups) that walk an ID range with a thread pool.  *)
(*                                                                         *)
(* Threads are modelled with a program counter each: thread 0 is the main  *)
(* thread, threads 1..threads are the pool's workers.  Every request to    *)
(* the upstream is one step whose answer is drawn from what the upstream   *)
(* may answer.                                                             *)
(***************************************************************************)
EXTENDS Integers, Sequences, FiniteSets, Bags, TLC

\* client.py line 23
REQUESTS_PER_SESSION_REFRESH == 1000

\* ---------------------------------------------------------------- bounds
\* The largest number of pool workers (--threads) a run is started with.
MaxThreads == 2
\* The client specification: the number of fetches the threads make when
\* they run concurrently, and how far below the refresh threshold the
\* counter of such a run starts.
MaxCalls == 3
StartBelow == 1

\* The walks: the longest ID range, the number of posts upstream, the
\* number of posts of one page, the largest day of a timestamp or cutoff.
MaxRange == 5
MaxFaultyRange == 3
MaxPosts == 3
PageSize == 2
MaxDay == 1
\* The paginator specification: the number of pages an upstream that
\* ignores max_id is asked for.
MaxRequests == 2
\* The latest-user specification: how far above the search's starting
\* point, and its first probe, the highest existing ID may lie, one by one
\* and in strides.
MaxAbove == 2
Stride == 123457

\* ---------------------------------------------------------------- values
\* Python's None, where an entity (an integer ID here) is expected.
None == -1
Main == 0
\* The value of `budget` in a run whose number of fetches is not limited.
Unlimited == -1
Workers == 1..MaxThreads
ThreadIds == {Main} \cup Workers

VARIABLES
  username,                \* Client.username ("" when not supplied)
  password,                \* Client.password ("" when not supplied)
  threads,                 \* Client.threads
  requests_since_refresh,  \* Client._requests_since_refresh
  sess_cookie,             \* Client.sess_cookie: "unset" (attribute never
                           \* assigned), "None" or "cookie"
  th,                      \* per thread: program counter and locals
  credsValid,              \* upstream: the supplied credentials are accepted
  correct,                 \* upstream: every request is answered correctly
  K,                       \* upstream: highest entity ID that exists
  holes,                   \* upstream: IDs <= K that do not exist
  loginGets,               \* history: GET /auth/sign_in requests issued
  loginPosts,              \* history: POST /auth/sign_in requests issued
  refreshCalls,            \* history: get_sess_cookie calls made by _get
  lost,                    \* history: an increment of the counter was lost
  budget,                  \* client specification: fetches still to start
                           \* (Unlimited: until the first refresh starts)
  honest,                  \* upstream: max_id / page are honoured
  timeline,                \* upstream: post ID -> [owner, created_at]
  command,                 \* "posts" or "groups"
  first,                   \* --first
  last,                    \* --last
  pull_posts,              \* --posts/--no-posts
  created_after,           \* --created-after (NoDate when not given)
  depth,                   \* --depth
  users,                   \* the iterator over the range: its next ID
  f,                       \* the list of futures in flight (by task ID)
  fut,                     \* task ID -> the future's state and result
  queue,                   \* the pool's work queue
  done,                    \* the set await_any returned
  users_file,              \* the entity output: the bag of IDs written
  posts_file,              \* the post output: the bag of post IDs written
  submitted,               \* history: the IDs submitted to the pool
  consumed,                \* history: task results the main loop consumed
  taskRaised               \* history: a fetch task ended with an exception

vars == <<username, password, threads, requests_since_refresh, sess_cookie,
          th, credsValid, correct, K, holes, loginGets, loginPosts,
          refreshCalls, lost, budget, honest, timeline, command, first, last,
          pull_posts, created_after, depth, users, f, fut, queue, done,
          users_file, posts_file, submitted, consumed, taskRaised>>

clientVars == <<username, password, threads>>
upstreamVars == <<credsValid, correct, K, holes, honest, timeline>>
optionVars == <<command, first, last, pull_posts, created_after, depth>>
configVars == <<clientVars, upstreamVars, optionVars>>
walkVars == <<users, f, fut, queue, done, users_file, posts_file, submitted,
              consumed, taskRaised>>

\* The locals of a thread that runs nothing.
IdleThread ==
  [pc |-> "idle", id |-> None, url |-> "none", ret |-> "none",
   ret2 |-> "none", resp |-> "none", exc |-> FALSE, reg |-> 0,
   user |-> None, login_from |-> "none", cookie |-> "None",
   login_case |-> "none", login_outcome |-> "none", login_posted |-> FALSE,
   body |-> {}, max_id |-> None, all_posts |-> <<>>, page |-> 0,
   sent |-> <<>>, fetched |-> <<>>,
   lower_bound |-> 0, upper_bound |-> 0, middle |-> 0, latest |-> None,
   refresh_failed |-> FALSE]

\* Values as sequences: sorted(), and the orders a set may be iterated in.
RECURSIVE SortAsc(_)
SortAsc(S) ==
  IF S = {} THEN <<>>
  ELSE LET m == CHOOSE x \in S : \A y \in S : x <= y
       IN  <<m>> \o SortAsc(S \ {m})
RECURSIVE SortDesc(_)
SortDesc(S) ==
  IF S = {} THEN <<>>
  ELSE LET m == CHOOSE x \in S : \A y \in S : x >= y
       IN  <<m>> \o SortDesc(S \ {m})
RECURSIVE Orders(_)
Orders(S) ==
  IF S = {} THEN {<<>>}
  ELSE UNION {{<<x>> \o o : o \in Orders(S \ {x})} : x \in S}
Range(q) == {q[k] : k \in DOMAIN q}
Min(a, b) == IF a <= b THEN a ELSE b
Max(a, b) == IF a >= b THEN a ELSE b

\* ------------------------------------------------------------- upstream
\* The entity with this ID exists upstream.
Exists(i) == i >= 0 /\ i <= K /\ i \notin holes

\* What the entity endpoints (/accounts/{id}, /groups/{id}) may answer.
EntityResponses(i) ==
  LET right == IF Exists(i) THEN "found" ELSE "notfound"
  IN  IF correct THEN {right}
      ELSE {right, "undecodable", "nondict", "transport"}

\* What GET /auth/sign_in may answer.
SignInPages ==
  IF correct THEN {"ok"}
  ELSE {"ok", "no_meta", "empty_csrf", "http_error", "transport"}

\* What POST /auth/sign_in may answer: a session only for accepted
\* credentials; credentials that are not accepted (the empty ones of a
\* client without credentials among them) are turned down with a page that
\* sets no _session_id or with an HTTP error status.
SignInAnswers ==
  LET right == IF username # "" /\ password # "" /\ credsValid
               THEN {"session"} ELSE {"no_session", "http_error"}
  IN  IF correct THEN right
      ELSE right \cup {"no_session", "http_error", "transport"}

\* The posts of an owner, and the n-th page of PageSize of a set of posts,
\* newest (highest ID) first.
PostsOf(owner) == {q \in DOMAIN timeline : timeline[q].owner = owner}
Newer(S, q) == Cardinality({r \in S : r > q})
PageOf(S, n) ==
  {q \in S : Newer(S, q) >= (n - 1) * PageSize /\ Newer(S, q) < n * PageSize}
SmallSubsets(S) == {P \in SUBSET S : Cardinality(P) <= PageSize}

\* What a list endpoint may answer when the right answer is `right` and
\* `eligible` are the posts the request's cursor allows: a correct upstream
\* gives the right page; an honest one any page of eligible posts, or a
\* failure; any other upstream any page of the owner's posts.
ListResponses(owner, eligible, right) ==
  IF correct THEN {[kind |-> "list", body |-> right]}
  ELSE {[kind |-> "list", body |-> P] :
          P \in SmallSubsets(IF honest THEN eligible ELSE PostsOf(owner))}
       \cup {[kind |-> k, body |-> {}] :
               k \in {"error_obj", "undecodable", "transport"}}

\* GET /accounts/{id}/statuses with params max_id (exclusive upper bound).
StatusesResponses(rec) ==
  LET eligible == {q \in PostsOf(rec.id) :
                     rec.max_id = None \/ q < rec.max_id}
  IN  ListResponses(rec.id, eligible, PageOf(eligible, 1))

\* GET /timelines/group/{id} with params page.
GroupPostsResponses(rec) ==
  ListResponses(rec.id, PostsOf(rec.id), PageOf(PostsOf(rec.id), rec.page))

\* What the upstream may answer to the request a thread is about to make.
Responses(rec) ==
  CASE rec.url \in {"accounts", "groups"} ->
         {[kind |-> k, body |-> {}] : k \in EntityResponses(rec.id)}
    [] rec.url = "statuses" -> StatusesResponses(rec)
    [] OTHER -> GroupPostsResponses(rec)

\* ------------------------------------------------------ get_sess_cookie
\* get_sess_cookie returns `value` to its caller.
LoginReturn(rec, case, value) ==
  [rec EXCEPT !.pc = IF rec.login_from = "init" THEN "init_assign"
                     ELSE "get_assign",
              !.cookie = value,
              !.login_case = case,
              !.login_outcome = "returned"]

\* get_sess_cookie raises: out of __init__ the program ends, out of _get the
\* exception reaches the caller of _get.
LoginRaise(rec, case) ==
  [rec EXCEPT !.pc = IF rec.login_from = "init" THEN "aborted" ELSE rec.ret,
              !.exc = (rec.login_from # "init"),
              !.login_case = case,
              !.login_outcome = "raised",
              !.refresh_failed = (rec.login_from = "refresh")]

CallLogin(rec, from) ==
  [rec EXCEPT !.pc = "login_get", !.login_from = from,
              !.login_case = "none", !.login_outcome = "none",
              !.login_posted = FALSE]

\* Client.__init__
ClientInit ==
  /\ th[Main].pc = "init"
  /\ requests_since_refresh' = 0
  /\ th' = [th EXCEPT ![Main] =
              IF username # "" /\ password # ""
              THEN CallLogin(@, "init")
              ELSE [@ EXCEPT !.pc = "ready"]]
  /\ UNCHANGED <<configVars, walkVars, sess_cookie, loginGets,
                 loginPosts, refreshCalls, lost, budget>>

\* __init__ line 58: self.sess_cookie = <returned value>
InitAssign ==
  /\ th[Main].pc = "init_assign"
  /\ sess_cookie' = th[Main].cookie
  /\ th' = [th EXCEPT ![Main].pc = "ready"]
  /\ UNCHANGED <<configVars, walkVars, requests_since_refresh,
                 loginGets, loginPosts, refreshCalls, lost, budget>>

\* get_sess_cookie lines 289-298: the sign-in page and its CSRF token.
LoginGet(t) ==
  /\ th[t].pc = "login_get"
  /\ loginGets' = loginGets + 1
  /\ \E page \in SignInPages :
       th' = [th EXCEPT ![t] =
                CASE page = "ok" -> [@ EXCEPT !.pc = "login_post"]
                  [] page = "empty_csrf" -> LoginReturn(@, page, "None")
                  [] page = "http_error" ->
                       LoginReturn(@, "get_http_error", "None")
                  [] page = "no_meta" -> LoginRaise(@, page)
                  [] OTHER -> LoginRaise(@, "get_transport")]
  /\ UNCHANGED <<configVars, walkVars, requests_since_refresh,
                 sess_cookie, loginPosts, refreshCalls, lost, budget>>

\* get_sess_cookie lines 300-316: the credential POST and its cookie.
LoginPost(t) ==
  /\ th[t].pc = "login_post"
  /\ loginPosts' = loginPosts + 1
  /\ \E answer \in SignInAnswers :
       th' = [th EXCEPT ![t] =
                LET posted == [@ EXCEPT !.login_posted = TRUE]
                IN  CASE answer = "session" ->
                           LoginReturn(posted, "ok", "cookie")
                      [] answer = "http_error" ->
                           LoginReturn(posted, "post_http_error", "None")
                      [] answer = "no_session" ->
                           LoginRaise(posted, "no_session")
                      [] OTHER -> LoginRaise(posted, "post_transport")]
  /\ UNCHANGED <<configVars, walkVars, requests_since_refresh,
                 sess_cookie, loginGets, refreshCalls, lost, budget>>

\* ----------------------------------------------------------------- _get
\* The response `r` has arrived (line 73).
Received(rec, r) ==
  [rec EXCEPT !.resp = r.kind,
              !.body = r.body,
              !.fetched = IF rec.url \in {"statuses", "group_posts"}
                          THEN Append(@, r.body) ELSE @]

\* _get line 73: the request itself; a transport failure (retries
\* exhausted) leaves _get as an exception.
GetHttp(t) ==
  /\ th[t].pc = "get_http"
  /\ \E r \in Responses(th[t]) :
       th' = [th EXCEPT ![t] =
                IF r.kind = "transport"
                THEN [@ EXCEPT !.pc = th[t].ret, !.exc = TRUE]
                ELSE [Received(@, r) EXCEPT !.pc = "get_load"]]
  /\ UNCHANGED <<configVars, walkVars, requests_since_refresh, sess_cookie,
                 loginGets, loginPosts, refreshCalls, lost, budget>>

\* _get lines 62-85 up to the start of a refresh, when no other thread is
\* between the request and the comparison: the request, the count and the
\* comparison with the threshold.
Get(t) ==
  /\ th[t].pc = "get_http"
  /\ \E r \in Responses(th[t]) :
       IF r.kind = "transport"
       THEN /\ th' = [th EXCEPT ![t] = [@ EXCEPT !.pc = th[t].ret,
                                                 !.exc = TRUE]]
            /\ UNCHANGED <<requests_since_refresh, refreshCalls>>
       ELSE /\ requests_since_refresh' = requests_since_refresh + 1
            /\ IF requests_since_refresh + 1 > REQUESTS_PER_SESSION_REFRESH
               THEN /\ th' = [th EXCEPT ![t] =
                                CallLogin(Received(@, r), "refresh")]
                    /\ refreshCalls' = refreshCalls + 1
               ELSE /\ th' = [th EXCEPT ![t] =
                                [Received(@, r) EXCEPT !.pc = th[t].ret]]
                    /\ UNCHANGED refreshCalls
  /\ UNCHANGED <<configVars, walkVars, sess_cookie, loginGets, loginPosts,
                 lost, budget>>

\* _get line 77, first half: read self._requests_since_refresh
GetLoad(t) ==
  /\ th[t].pc = "get_load"
  /\ th' = [th EXCEPT ![t].pc = "get_store",
                      ![t].reg = requests_since_refresh]
  /\ UNCHANGED <<configVars, walkVars, requests_since_refresh,
                 sess_cookie, loginGets, loginPosts, refreshCalls, lost,
                 budget>>

\* _get line 77, second half: write the incremented value back
GetStore(t) ==
  /\ th[t].pc = "get_store"
  /\ requests_since_refresh' = th[t].reg + 1
  /\ lost' = (lost \/ th[t].reg # requests_since_refresh)
  /\ th' = [th EXCEPT ![t].pc = "get_cmp", ![t].reg = 0]
  /\ UNCHANGED <<configVars, walkVars, sess_cookie, loginGets,
                 loginPosts, refreshCalls, budget>>

\* _get lines 78-82: compare with the threshold, start the refresh
GetCmp(t) ==
  /\ th[t].pc = "get_cmp"
  /\ IF requests_since_refresh > REQUESTS_PER_SESSION_REFRESH
     THEN /\ th' = [th EXCEPT ![t] = CallLogin(@, "refresh")]
          /\ refreshCalls' = refreshCalls + 1
     ELSE /\ th' = [th EXCEPT ![t].pc = th[t].ret]
          /\ UNCHANGED refreshCalls
  /\ UNCHANGED <<configVars, walkVars, requests_since_refresh,
                 sess_cookie, loginGets, loginPosts, lost, budget>>

\* _get line 82: self.sess_cookie = <returned value>
GetAssign(t) ==
  /\ th[t].pc = "get_assign"
  /\ sess_cookie' = th[t].cookie
  /\ th' = [th EXCEPT ![t].pc = "get_reset"]
  /\ UNCHANGED <<configVars, walkVars, requests_since_refresh,
                 loginGets, loginPosts, refreshCalls, lost, budget>>

\* _get lines 83-85: reset the counter, return the response
GetReset(t) ==
  /\ th[t].pc = "get_reset"
  /\ requests_since_refresh' = 0
  /\ th' = [th EXCEPT ![t].pc = th[t].ret]
  /\ UNCHANGED <<configVars, walkVars, sess_cookie, loginGets,
                 loginPosts, refreshCalls, lost, budget>>

\* ------------------------------------------------------------ pull_user
\* pull_user(id) is called; pull_user returns to `ret2`.
CallPullUser(rec, i, ret2) ==
  [rec EXCEPT !.pc = "get_http", !.url = "accounts", !.id = i,
              !.ret = "pull_user_ret", !.ret2 = ret2, !.resp = "none",
              !.exc = FALSE, !.user = None, !.refresh_failed = FALSE]

\* What pull_user / pull_group make of the response (lines 91-104): a
\* decoding failure and any exception give None, so does "Record not
\* found"; a body that is no JSON object has no .get and raises.
EntityResult(rec) ==
  IF rec.exc \/ rec.resp \in {"undecodable", "notfound"}
  THEN [user |-> None, exc |-> FALSE]
  ELSE IF rec.resp = "nondict"
  THEN [user |-> None, exc |-> TRUE]
  ELSE [user |-> rec.id, exc |-> FALSE]

\* pull_user lines 91-104, after _get has returned or raised
PullUserRet(t) ==
  /\ th[t].pc = "pull_user_ret"
  /\ th' = [th EXCEPT ![t] =
              [@ EXCEPT !.pc = th[t].ret2,
                        !.user = EntityResult(th[t]).user,
                        !.exc = EntityResult(th[t]).exc,
                        !.resp = "none", !.url = "none",
                        !.login_from = "none", !.cookie = "None",
                        !.login_case = "none", !.login_outcome = "none",
                        !.login_posted = FALSE]]
  /\ UNCHANGED <<configVars, walkVars, requests_since_refresh,
                 sess_cookie, loginGets, loginPosts, refreshCalls, lost,
                 budget>>

\* ----------------------------------------------------------- pull_group
CallPullGroup(rec, i, ret2) ==
  [rec EXCEPT !.pc = "get_http", !.url = "groups", !.id = i,
              !.ret = "pull_group_ret", !.ret2 = ret2, !.resp = "none",
              !.exc = FALSE, !.user = None, !.refresh_failed = FALSE]

\* pull_group lines 110-123, after _get has returned or raised
PullGroupRet(t) ==
  /\ th[t].pc = "pull_group_ret"
  /\ th' = [th EXCEPT ![t] =
              [@ EXCEPT !.pc = th[t].ret2,
                        !.user = EntityResult(th[t]).user,
                        !.exc = EntityResult(th[t]).exc,
                        !.resp = "none", !.url = "none",
                        !.login_from = "none", !.cookie = "None",
                        !.login_case = "none", !.login_outcome = "none",
                        !.login_posted = FALSE]]
  /\ UNCHANGED <<configVars, walkVars, requests_since_refresh, sess_cookie,
                 loginGets, loginPosts, refreshCalls, lost, budget>>

\* -------------------------------------------------------- pull_statuses
NoDate == -1
\* date_parse(created_at).replace(tzinfo=utc).date(): the day of a timestamp
\* (hours since day 0), whatever its zone.
DateOf(created_at) == created_at \div 24
PostDate(q) == DateOf(timeline[q].created_at)

\* A function returns to `ret2`; its locals for the request are dropped.
ReturnTo(rec) ==
  [rec EXCEPT !.pc = rec.ret2, !.exc = FALSE, !.resp = "none",
              !.body = {}, !.url = "none",
              !.login_from = "none", !.cookie = "None",
              !.login_case = "none", !.login_outcome = "none",
              !.login_posted = FALSE]

\* pull_statuses lines 181-185: the request of one iteration.  Reading
\* self.sess_cookie raises when the attribute was never set, which ends the
\* loop like any other exception.
StatusesRequest(rec) ==
  IF sess_cookie = "unset" THEN ReturnTo(rec)
  ELSE [rec EXCEPT !.pc = "get_http", !.url = "statuses",
                   !.ret = "statuses_ret", !.resp = "none", !.exc = FALSE,
                   !.body = {}, !.sent = Append(@, rec.max_id)]

\* pull_statuses(id, created_after, replies) is called.
CallPullStatuses(rec, ret2) ==
  StatusesRequest([rec EXCEPT !.ret2 = ret2, !.max_id = None,
                              !.all_posts = <<>>, !.sent = <<>>,
                              !.fetched = <<>>])

\* A cursor taken from the other end of the page.
NextMaxIdHighest(body) == CHOOSE q \in body : \A r \in body : q >= r

\* A loop that stops at the first page holding any post older than the
\* cutoff.
PageOldestTooOld(body) ==
  /\ created_after # NoDate
  /\ \E q \in body : PostDate(q) < created_after

\* A page kept whole.
KeptPostsUnfiltered(body) == SortAsc(body)

\* The cursor the next request carries (line 206): the lowest ID of the page.
NextMaxId(body) == CHOOSE q \in body : \A r \in body : q <= r

\* Line 211: the page's post with the highest ID is older than the cutoff.
PageTooOld(body) ==
  /\ body # {}
  /\ created_after # NoDate
  /\ PostDate(CHOOSE q \in body : \A r \in body : q >= r) < created_after

\* Lines 215-223: the posts of a page that are kept, in ascending ID order.
KeptPosts(body) ==
  SelectSeq(SortAsc(body),
            LAMBDA q : ~(created_after # NoDate /\ PostDate(q) < created_after))

\* The loop ends on an exception, an undecodable body, an API error object
\* or an empty page (lines 186-200).
PageEndsLoop(rec) ==
  \/ rec.exc
  \/ rec.resp \in {"undecodable", "error_obj"}
  \/ rec.body = {}

\* pull_statuses lines 186-225, after _get has returned or raised.  Against
\* an upstream that ignores max_id the loop need not end: the run is cut
\* where request MaxRequests + 1 would be sent.
StatusesRet(t) ==
  /\ th[t].pc = "statuses_ret"
  /\ th' = [th EXCEPT ![t] =
              IF PageEndsLoop(th[t]) THEN ReturnTo(th[t])
              ELSE IF PageTooOld(th[t].body)
              THEN ReturnTo([th[t] EXCEPT
                               !.max_id = NextMaxId(th[t].body)])
              ELSE LET next == [th[t] EXCEPT
                                  !.max_id = NextMaxId(th[t].body),
                                  !.all_posts = @ \o KeptPosts(th[t].body)]
                   IN  IF ~honest /\ Len(th[t].sent) >= MaxRequests
                       THEN [next EXCEPT !.pc = "statuses_cut"]
                       ELSE StatusesRequest(next)]
  /\ UNCHANGED <<configVars, walkVars, requests_since_refresh, sess_cookie,
                 loginGets, loginPosts, refreshCalls, lost, budget>>

\* A loop test that lets one page more than `depth` through
\* (`while page <= depth + 1`).
GroupPostsRequestOneMore(rec) ==
  IF rec.page > depth + 1 \/ sess_cookie = "unset" THEN ReturnTo(rec)
  ELSE [rec EXCEPT !.pc = "get_http", !.url = "group_posts",
                   !.ret = "group_posts_ret", !.resp = "none",
                   !.exc = FALSE, !.body = {}, !.sent = Append(@, rec.page)]

\* ----------------------------------------------------- pull_group_posts
\* pull_group_posts lines 129-138: the loop test and the request.
GroupPostsRequest(rec) ==
  IF rec.page > depth \/ sess_cookie = "unset" THEN ReturnTo(rec)
  ELSE [rec EXCEPT !.pc = "get_http", !.url = "group_posts",
                   !.ret = "group_posts_ret", !.resp = "none",
                   !.exc = FALSE, !.body = {}, !.sent = Append(@, rec.page)]

\* list(pull_group_posts(id, depth)) is called.
CallPullGroupPosts(rec, ret2) ==
  GroupPostsRequest([rec EXCEPT !.ret2 = ret2, !.page = 1,
                                !.all_posts = <<>>, !.sent = <<>>,
                                !.fetched = <<>>])

\* pull_group_posts lines 139-156, after _get has returned or raised
GroupPostsRet(t) ==
  /\ th[t].pc = "group_posts_ret"
  /\ th' = [th EXCEPT ![t] =
              IF PageEndsLoop(th[t]) THEN ReturnTo(th[t])
              ELSE GroupPostsRequest(
                     [th[t] EXCEPT
                        !.page = @ + 1,
                        !.all_posts = @ \o SortDesc(th[t].body)])]
  /\ UNCHANGED <<configVars, walkVars, requests_since_refresh, sess_cookie,
                 loginGets, loginPosts, refreshCalls, lost, budget>>

\* ------------------------------------------------------- the thread pool
\* Future.set_result / set_exception: the task of thread t ends.
TaskFinish(t, user, posts, exc) ==
  /\ fut' = [fut EXCEPT ![th[t].id] =
               [state |-> "finished", user |-> user, posts |-> posts,
                exc |-> exc]]
  /\ taskRaised' = (taskRaised \/ exc)
  /\ th' = [th EXCEPT ![t] = IdleThread]

\* An idle worker takes the oldest work item of the queue and starts it.
WorkerTake(t) ==
  /\ t \in 1..threads
  /\ th[t].pc = "idle"
  /\ queue # <<>>
  /\ queue' = Tail(queue)
  /\ fut' = [fut EXCEPT ![Head(queue)].state = "running"]
  /\ th' = [th EXCEPT ![t] =
              IF command = "posts"
              THEN CallPullUser(@, Head(queue), "user_and_posts")
              ELSE CallPullGroup(@, Head(queue), "group_and_posts")]
  /\ UNCHANGED <<configVars, users, f, done, users_file, posts_file,
                 submitted, consumed, taskRaised, requests_since_refresh,
                 sess_cookie, loginGets, loginPosts, refreshCalls, lost,
                 budget>>

\* pull_user_and_posts lines 232-237, after pull_user has returned
UserAndPosts(t) ==
  /\ th[t].pc = "user_and_posts"
  /\ IF th[t].exc
     THEN TaskFinish(t, None, <<>>, TRUE)
     ELSE IF th[t].user # None /\ pull_posts
     THEN /\ th' = [th EXCEPT ![t] = CallPullStatuses(@, "user_posts_done")]
          /\ UNCHANGED <<fut, taskRaised>>
     ELSE TaskFinish(t, th[t].user, <<>>, FALSE)
  /\ UNCHANGED <<configVars, users, f, queue, done, users_file, posts_file,
                 submitted, consumed, requests_since_refresh, sess_cookie,
                 loginGets, loginPosts, refreshCalls, lost, budget>>

\* pull_user_and_posts lines 239-246, after pull_statuses has returned
UserPostsDone(t) ==
  /\ th[t].pc = "user_posts_done"
  /\ TaskFinish(t, th[t].user, th[t].all_posts, FALSE)
  /\ UNCHANGED <<configVars, users, f, queue, done, users_file, posts_file,
                 submitted, consumed, requests_since_refresh, sess_cookie,
                 loginGets, loginPosts, refreshCalls, lost, budget>>

\* pull_group_and_posts lines 161-164, after pull_group has returned
GroupAndPosts(t) ==
  /\ th[t].pc = "group_and_posts"
  /\ IF th[t].exc
     THEN TaskFinish(t, None, <<>>, TRUE)
     ELSE IF th[t].user # None /\ pull_posts
     THEN /\ th' = [th EXCEPT ![t] =
                      CallPullGroupPosts(@, "group_posts_done")]
          /\ UNCHANGED <<fut, taskRaised>>
     ELSE TaskFinish(t, th[t].user, <<>>, FALSE)
  /\ UNCHANGED <<configVars, users, f, queue, done, users_file, posts_file,
                 submitted, consumed, requests_since_refresh, sess_cookie,
                 loginGets, loginPosts, refreshCalls, lost, budget>>

\* pull_group_and_posts lines 166-173, after pull_group_posts is exhausted
GroupPostsDone(t) ==
  /\ th[t].pc = "group_posts_done"
  /\ TaskFinish(t, th[t].user, th[t].all_posts, FALSE)
  /\ UNCHANGED <<configVars, users, f, queue, done, users_file, posts_file,
                 submitted, consumed, requests_since_refresh, sess_cookie,
                 loginGets, loginPosts, refreshCalls, lost, budget>>

\* ------------------------------------------------- the commands' walks
\* posts lines 382-390, groups lines 467-472: posts need credentials; the
\* iterator over [first, last] is created.
CmdStart ==
  /\ th[Main].pc = "ready"
  /\ IF pull_posts /\ (username = "" \/ password = "")
     THEN /\ th' = [th EXCEPT ![Main].pc = "rejected"]
          /\ UNCHANGED users
     ELSE /\ th' = [th EXCEPT ![Main].pc = "submit"]
          /\ users' = first
  /\ UNCHANGED <<configVars, f, fut, queue, done, users_file, posts_file,
                 submitted, consumed, taskRaised, requests_since_refresh,
                 sess_cookie, loginGets, loginPosts, refreshCalls, lost,
                 budget>>

\* An iterator that loses an ID each time IDs are taken from it.
TakeSkipping(n) ==
  [k \in 1..Min(n, Max(0, last - users)) |-> users + k]

\* islice(users, n) / next(users): the next IDs of the iterator, at most n.
Take(n) ==
  [k \in 1..Min(n, Max(0, last - users + 1)) |-> users + k - 1]

\* ex.submit for each ID of `ids`: a pending future and a work item each.
Submit(ids) ==
  /\ f' = f \o ids
  /\ queue' = queue \o ids
  /\ fut' = [i \in DOMAIN fut \cup Range(ids) |->
               IF i \in Range(ids)
               THEN [state |-> "pending", user |-> None, posts |-> <<>>,
                     exc |-> FALSE]
               ELSE fut[i]]
  /\ users' = users + Len(ids)
  /\ submitted' = submitted \o ids

\* posts lines 397-402, groups lines 479-482: the initial work.
SubmitInitial ==
  /\ th[Main].pc = "submit"
  /\ Submit(Take(threads * 2))
  /\ th' = [th EXCEPT ![Main].pc = "loop"]
  /\ UNCHANGED <<configVars, done, users_file, posts_file, consumed,
                 taskRaised, requests_since_refresh, sess_cookie, loginGets,
                 loginPosts, refreshCalls, lost, budget>>

\* The while test fails (lines 404 / 484): the walk ends normally.
WalkEnd ==
  /\ th[Main].pc = "loop"
  /\ f = <<>>
  /\ th' = [th EXCEPT ![Main].pc = "done"]
  /\ UNCHANGED <<configVars, walkVars, requests_since_refresh, sess_cookie,
                 loginGets, loginPosts, refreshCalls, lost, budget>>

\* The lines a sequence of records adds to a file, whatever their order.
BagOfSeq(s) ==
  [x \in Range(s) |-> Cardinality({k \in DOMAIN s : s[k] = x})]

\* A loop over `done` that logs the exception of a failed task and goes on
\* with the next one instead of raising it again.
RECURSIVE EmitSkippingFailed(_, _)
EmitSkippingFailed(order, out) ==
  IF order = <<>> THEN out
  ELSE LET r == fut[Head(order)]
       IN  IF r.exc THEN EmitSkippingFailed(Tail(order), out)
           ELSE EmitSkippingFailed(Tail(order),
                     [out EXCEPT
                        !.users = IF r.user # None
                                  THEN @ (+) SetToBag({r.user}) ELSE @,
                        !.posts = IF r.user # None
                                  THEN @ (+) BagOfSeq(r.posts) ELSE @,
                        !.n = @ + 1])

\* The for loop over `done` (lines 408-416 / 488-496) in the order `order`:
\* each result is written unless the entity is None; the first task that
\* raised ends the loop with its exception.
RECURSIVE Emit(_, _)
Emit(order, out) ==
  IF order = <<>> THEN out
  ELSE LET r == fut[Head(order)]
       IN  IF r.exc THEN [out EXCEPT !.raised = TRUE]
           ELSE Emit(Tail(order),
                     [out EXCEPT
                        !.users = IF r.user # None
                                  THEN @ (+) SetToBag({r.user}) ELSE @,
                        !.posts = IF r.user # None
                                  THEN @ (+) BagOfSeq(r.posts) ELSE @,
                        !.n = @ + 1])

\* await_any (lines 43-48): wait for a first future to finish, take every
\* finished future out of the list.
Finished == {i \in Range(f) : fut[i].state = "finished"}

\* One iteration of the main loop up to the scheduling of more work
\* (lines 404-419 / 484-499).
AwaitAny ==
  /\ th[Main].pc = "loop"
  /\ Finished # {}
  /\ done' = Finished
  /\ f' = SelectSeq(f, LAMBDA i : i \notin Finished)
  /\ fut' = [i \in DOMAIN fut \ Finished |-> fut[i]]
  /\ \E order \in Orders(Finished) :
       LET out == Emit(order, [users |-> users_file, posts |-> posts_file,
                               n |-> consumed, raised |-> FALSE])
       IN  /\ users_file' = out.users
           /\ posts_file' = out.posts
           /\ consumed' = out.n
           /\ th' = [th EXCEPT ![Main].pc =
                       IF out.raised THEN "raised" ELSE "refill"]
  /\ UNCHANGED <<configVars, users, queue, submitted, taskRaised,
                 requests_since_refresh, sess_cookie, loginGets, loginPosts,
                 refreshCalls, lost, budget>>

\* posts lines 422-435: as many new tasks as were consumed, while the
\* iterator has IDs.
RefillPosts ==
  /\ th[Main].pc = "refill"
  /\ command = "posts"
  /\ Submit(Take(Cardinality(done)))
  /\ th' = [th EXCEPT ![Main].pc = "loop"]
  /\ UNCHANGED <<configVars, done, users_file, posts_file, consumed,
                 taskRaised, requests_since_refresh, sess_cookie, loginGets,
                 loginPosts, refreshCalls, lost, budget>>

\* groups lines 502-511: the loop body appends to `futures`, which is the
\* module concurrent.futures and has no append: the first pass of the loop
\* raises AttributeError, which `except StopIteration` does not catch.
RefillGroups ==
  /\ th[Main].pc = "refill"
  /\ command = "groups"
  /\ th' = [th EXCEPT ![Main].pc =
              IF Cardinality(done) > 0 THEN "raised" ELSE "loop"]
  /\ UNCHANGED <<configVars, walkVars, requests_since_refresh, sess_cookie,
                 loginGets, loginPosts, refreshCalls, lost, budget>>

\* --------------------------------------------- the client under threads
\* The IDs the threads of the client specification fetch.
ClientIds == {K, K + 1}

\* A thread calls pull_user, as the pool's workers do.
ClientCall(t) ==
  /\ t \in 1..threads
  /\ th[Main].pc = "ready"
  /\ th[t].pc \in {"idle", "client_ret"}
  /\ \/ budget > 0
     \/ budget = Unlimited /\ refreshCalls = 0
  /\ budget' = IF budget > 0 THEN budget - 1 ELSE budget
  /\ \E i \in ClientIds :
       th' = [th EXCEPT ![t] = CallPullUser(@, i, "client_ret")]
  /\ UNCHANGED <<configVars, walkVars, requests_since_refresh,
                 sess_cookie, loginGets, loginPosts, refreshCalls, lost>>

InitUpstreamClient ==
  /\ correct \in BOOLEAN
  /\ credsValid \in BOOLEAN
  /\ K = 1
  /\ holes = {}
  /\ honest = correct
  /\ timeline = <<>>

\* A client about to be constructed, whose single thread then fetches until
\* the first session refresh has been started.
InitClientFresh ==
  /\ threads = 1
  /\ requests_since_refresh = 0
  /\ sess_cookie = "unset"
  /\ th = [t \in ThreadIds |->
             IF t = Main THEN [IdleThread EXCEPT !.pc = "init"]
             ELSE IdleThread]
  /\ loginGets = 0
  /\ loginPosts = 0
  /\ budget = Unlimited

\* A constructed client that has completed fetches up to just below the
\* refresh threshold (states the run from InitClientFresh passes through)
\* and whose threads now fetch concurrently.
InitClientBusy ==
  /\ threads \in 1..MaxThreads
  /\ requests_since_refresh \in
       (REQUESTS_PER_SESSION_REFRESH - StartBelow)..REQUESTS_PER_SESSION_REFRESH
  /\ \/ /\ username # "" /\ password # "" /\ credsValid
        /\ sess_cookie = "cookie"
        /\ loginGets = 1
        /\ loginPosts = 1
     \/ /\ username = "" \/ password = ""
        /\ sess_cookie = "unset"
        /\ loginGets = 0
        /\ loginPosts = 0
  /\ th = [t \in ThreadIds |->
             IF t = Main THEN [IdleThread EXCEPT !.pc = "ready"]
             ELSE IdleThread]
  /\ budget = MaxCalls

\* No walk is running.
NoWalk ==
  /\ command = "none"
  /\ first = 0
  /\ last = -1
  /\ pull_posts = FALSE
  /\ depth = 0
  /\ users = 0
  /\ f = <<>>
  /\ fut = <<>>
  /\ queue = <<>>
  /\ done = {}
  /\ users_file = EmptyBag
  /\ posts_file = EmptyBag
  /\ submitted = <<>>
  /\ consumed = 0
  /\ taskRaised = FALSE

InitClient ==
  /\ InitUpstreamClient
  /\ NoWalk
  /\ created_after = NoDate
  /\ username \in {"", "gab_user"}
  /\ password \in {"", "gab_pass"}
  /\ (username = "" \/ password = "") => ~credsValid
  /\ refreshCalls = 0
  /\ lost = FALSE
  /\ (InitClientFresh \/ InitClientBusy)

NextClient ==
  \/ ClientInit
  \/ InitAssign
  \/ \E t \in ThreadIds :
       \/ LoginGet(t)
       \/ LoginPost(t)
       \/ GetHttp(t)
       \/ GetLoad(t)
       \/ GetStore(t)
       \/ GetCmp(t)
       \/ GetAssign(t)
       \/ GetReset(t)
       \/ PullUserRet(t)
       \/ ClientCall(t)

SpecClient == InitClient /\ [][NextClient]_vars

\* ------------------------------------------------- the walk specification
\* client.py line 452: --depth when not given
DefaultDepth == 10000

\* The posts upstream: post q belongs to the first or the third entity of
\* the range, its day cycles through 0..MaxDay.
WalkTimeline ==
  [q \in 1..MaxPosts |->
     [owner |-> first + 2 * (q % 2), created_at |-> 24 * (q % (MaxDay + 1)) + 23]]

\* A command line: the options, the upstream it runs against, nothing done.
\* Posts are asked for with both credentials (the walk runs), or with one
\* or none (the command is rejected); without posts the walk runs without
\* credentials.  Of the entities of the range, the second is absent.  A
\* cutoff date, a depth, and an upstream that may fail are walked by a
\* single worker, the failing upstream over at most MaxFaultyRange IDs and
\* at most two pages of a group's posts.
InitWalk ==
  /\ command \in {"posts", "groups"}
  /\ first = 1
  /\ last \in (first - 2)..MaxRange
  /\ threads \in 1..MaxThreads
  /\ pull_posts \in BOOLEAN
  /\ username \in {"", "gab_user"}
  /\ password \in {"", "gab_pass"}
  /\ (username # "" \/ password # "") => pull_posts
  /\ credsValid = (username # "" /\ password # "")
  /\ created_after \in
       IF command = "posts" /\ pull_posts /\ credsValid /\ threads = 1
       THEN {NoDate, 1} ELSE {NoDate}
  /\ depth \in
       IF command = "groups" /\ pull_posts /\ credsValid /\ threads = 1
       THEN {0, 1, 2, DefaultDepth} ELSE {DefaultDepth}
  /\ correct \in BOOLEAN
  /\ ~correct =>
       /\ threads = 1
       /\ last <= MaxFaultyRange
       /\ (command = "groups" /\ pull_posts /\ credsValid) => depth # DefaultDepth
  /\ honest = TRUE
  /\ K = last
  /\ holes = {first + 1}
  /\ timeline = WalkTimeline
  /\ requests_since_refresh = 0
  /\ sess_cookie = "unset"
  /\ th = [t \in ThreadIds |->
             IF t = Main THEN [IdleThread EXCEPT !.pc = "init"]
             ELSE IdleThread]
  /\ users = 0
  /\ f = <<>>
  /\ fut = <<>>
  /\ queue = <<>>
  /\ done = {}
  /\ users_file = EmptyBag
  /\ posts_file = EmptyBag
  /\ submitted = <<>>
  /\ consumed = 0
  /\ taskRaised = FALSE
  /\ loginGets = 0
  /\ loginPosts = 0
  /\ refreshCalls = 0
  /\ lost = FALSE
  /\ budget = Unlimited

\* The steps of a worker thread in a walk that crosses no refresh
\* threshold, where the count of _get decides nothing.
WorkerStep(t) ==
  \/ WorkerTake(t)
  \/ Get(t)
  \/ PullUserRet(t)
  \/ PullGroupRet(t)
  \/ UserAndPosts(t)
  \/ StatusesRet(t)
  \/ UserPostsDone(t)
  \/ GroupAndPosts(t)
  \/ GroupPostsRet(t)
  \/ GroupPostsDone(t)

NextWalk ==
  \/ ClientInit
  \/ LoginGet(Main)
  \/ LoginPost(Main)
  \/ InitAssign
  \/ CmdStart
  \/ SubmitInitial
  \/ AwaitAny
  \/ RefillPosts
  \/ RefillGroups
  \/ WalkEnd
  \/ \E t \in Workers : WorkerStep(t)

Spec == InitWalk /\ [][NextWalk]_vars

\* ------------------------------------------ the paginator specification
\* The thread that calls pull_statuses, and the account whose posts it pulls.
Caller == 1
Account == 1

\* client.pull_statuses(Account, created_after, replies) is called.
PullStatusesCall ==
  /\ th[Caller].pc = "idle"
  /\ th' = [th EXCEPT ![Caller] =
              CallPullStatuses([@ EXCEPT !.id = Account], "statuses_done")]
  /\ UNCHANGED <<configVars, walkVars, requests_since_refresh, sess_cookie,
                 loginGets, loginPosts, refreshCalls, lost, budget>>

\* The timelines of the account: up to MaxPosts posts, numbered in the
\* order of their IDs, each written at some hour of a day of 0..MaxDay (the
\* days need not follow the IDs).
Timelines ==
  UNION {[1..n -> [owner : {Account},
                   created_at : {24 * d + 5 : d \in 0..MaxDay}]] :
           n \in 0..MaxPosts}

\* A logged-in client with one thread; an upstream that is correct, or
\* honours max_id but may give short pages and failures, or gives any page
\* of the account's posts; a cutoff date or none.
InitStatuses ==
  /\ NoWalk
  /\ username = "gab_user"
  /\ password = "gab_pass"
  /\ threads = 1
  /\ credsValid = TRUE
  /\ correct \in BOOLEAN
  /\ honest \in BOOLEAN
  /\ correct => honest
  /\ K = Account
  /\ holes = {}
  /\ timeline \in Timelines
  /\ created_after \in {NoDate} \cup 1..MaxDay
  /\ requests_since_refresh = 0
  /\ sess_cookie = "cookie"
  /\ th = [t \in ThreadIds |->
             IF t = Main THEN [IdleThread EXCEPT !.pc = "ready"]
             ELSE IdleThread]
  /\ loginGets = 1
  /\ loginPosts = 1
  /\ refreshCalls = 0
  /\ lost = FALSE
  /\ budget = Unlimited

NextStatuses ==
  \/ PullStatusesCall
  \/ Get(Caller)
  \/ StatusesRet(Caller)

SpecStatuses == InitStatuses /\ [][NextStatuses]_vars

\* The calls against an upstream that honours max_id.  The calling thread
\* keeps running and every request is answered or fails (timeout = 30 and a
\* bounded number of retries, lines 66-73).
InitStatusesHonest == InitStatuses /\ honest
SpecStatusesFair ==
  InitStatusesHonest /\ [][NextStatuses]_vars /\ WF_vars(NextStatuses)

\* The history of the call: the cursors sent, the pages received, the
\* posts collected so far, and whether the call has returned.
Sent == th[Caller].sent
Pages == th[Caller].fetched
Output == th[Caller].all_posts
Returned == th[Caller].pc = "statuses_done"
Cutoff == created_after # NoDate

\* ----------------------------------------------------------------- C7
\* C7: with a cutoff D, the posts pull_statuses has collected never include
\* a post created on a day before D, whatever pages the upstream returns.
C7_NoPostBeforeCutoff ==
  Cutoff => \A k \in DOMAIN Output : PostDate(Output[k]) >= created_after

\* The call has returned posts, having left out a post it was given that
\* is older than the cutoff.
C7_Witness ==
  /\ Cutoff
  /\ Returned
  /\ Output # <<>>
  /\ \E p \in DOMAIN Pages : \E q \in Pages[p] :
       /\ PostDate(q) < created_after
       /\ \E r \in Pages[p] : r \in Range(Output)

\* ----------------------------------------------------------------- C8
\* The page's post with the highest ID is dated before the cutoff.
NewestBefore(page) ==
  /\ Cutoff
  /\ page # {}
  /\ \A q \in page : (\A r \in page : r <= q) => PostDate(q) < created_after

\* The page's oldest post is dated before the cutoff.
OldestBefore(page) ==
  /\ Cutoff
  /\ \E q \in page : PostDate(q) < created_after

\* The posts of a page created on or after the cutoff.
OnOrAfter(page) == {q \in page : PostDate(q) >= created_after}

\* C8 as stated: once a fetched page's oldest post is dated before D, no
\* further page is requested, and that page's posts dated on or after D are
\* in the output.
C8_StopsAtOldestBeforeCutoff ==
  \A p \in DOMAIN Pages :
     OldestBefore(Pages[p]) =>
        /\ Len(Sent) <= p
        /\ Returned => OnOrAfter(Pages[p]) \subseteq Range(Output)

\* C8 amended: once a fetched page's highest-ID post is dated before D, no
\* further page is requested and the output takes nothing from that page;
\* every other non-empty page gives the output its posts dated on or after D
\* and is followed by a further request.
C8_StopsAtNewestBeforeCutoff ==
  /\ \A p \in DOMAIN Pages : NewestBefore(Pages[p]) => Len(Sent) <= p
  /\ Returned =>
       /\ Range(Output) \subseteq
            UNION {Pages[p] : p \in {r \in DOMAIN Pages :
                                       ~NewestBefore(Pages[r])}}
       /\ \A p \in DOMAIN Pages :
            (Pages[p] # {} /\ ~NewestBefore(Pages[p])) =>
               /\ Len(Sent) > p
               /\ Cutoff => OnOrAfter(Pages[p]) \subseteq Range(Output)

\* The call has returned after a page it kept a part of and requested past,
\* and stopped at a later page whose highest-ID post is older than the
\* cutoff.
C8_Witness ==
  /\ Returned
  /\ \E p \in DOMAIN Pages :
       /\ ~NewestBefore(Pages[p])
       /\ OldestBefore(Pages[p])
       /\ OnOrAfter(Pages[p]) # {}
       /\ OnOrAfter(Pages[p]) \subseteq Range(Output)
       /\ Len(Sent) > p
  /\ NewestBefore(Pages[Len(Pages)])
  /\ Len(Sent) = Len(Pages)

\* ----------------------------------------------------------------- C9
\* The posts of the first n pages.
FetchedBefore(n) == UNION {Pages[p] : p \in 1..(n - 1)}

\* The cursors follow the lowest post ID fetched so far and descend; no
\* post is received twice, none is collected twice.
CursorDescends ==
  /\ \A k \in DOMAIN Sent :
       /\ k = 1 => Sent[k] = None
       /\ k > 1 =>
            /\ FetchedBefore(k) # {}
            /\ \A q \in FetchedBefore(k) : Sent[k] <= q
            /\ Sent[k] \in FetchedBefore(k)
       /\ k > 2 => Sent[k] < Sent[k - 1]
  /\ \A p, r \in DOMAIN Pages : p # r => Pages[p] \cap Pages[r] = {}
  /\ \A k, m \in DOMAIN Output : k # m => Output[k] # Output[m]

\* C9: against an upstream that honours max_id as an exclusive upper bound
\* on a finite timeline, each request's cursor is the lowest post ID fetched
\* so far, the cursors strictly decrease, no post is fetched or output
\* twice, and the call returns.
C9_CursorDescendsAndReturns ==
  /\ [](honest => CursorDescends)
  /\ <>(honest => Returned)

\* A call that needed three requests against an honest upstream has
\* returned every post of the timeline.
C9_Witness ==
  /\ honest
  /\ Returned
  /\ Len(Sent) = 3
  /\ Len(Output) = MaxPosts

\* ----------------------------------------------------- find_latest_user
\* client.py line 251: the ID the search starts from
LowerBound == 5318531

\* round(upper_bound * 1.2) (line 256): the nearest integer to 6x/5, which
\* is never half-way between two integers.
Round12(x) == (6 * x + 2) \div 5

\* A search that steps over the ID next to a user it has found.
NarrowTooFar(lo, hi, middle, found) ==
  IF found THEN [lower_bound |-> middle + 2, upper_bound |-> hi]
  ELSE [lower_bound |-> lo, upper_bound |-> middle - 1]

\* Lines 267-270: the bounds after the user `middle` was found or not.
Narrow(lo, hi, middle, found) ==
  IF found THEN [lower_bound |-> middle + 1, upper_bound |-> hi]
  ELSE [lower_bound |-> lo, upper_bound |-> middle - 1]

\* Lines 261-263: the loop test of the binary search and its next fetch.
SearchStep(rec) ==
  IF rec.lower_bound <= rec.upper_bound
  THEN LET m == (rec.lower_bound + rec.upper_bound) \div 2
       IN  CallPullUser([rec EXCEPT !.middle = m], m, "search_ret")
  ELSE [rec EXCEPT !.pc = "latest_check"]

\* client.find_latest_user() is called (lines 251-254).
FindLatestCall ==
  /\ th[Main].pc = "ready"
  /\ th' = [th EXCEPT ![Main] =
              CallPullUser([@ EXCEPT !.lower_bound = LowerBound,
                                     !.upper_bound = LowerBound,
                                     !.latest = None],
                           LowerBound, "probe_ret")]
  /\ UNCHANGED <<configVars, walkVars, requests_since_refresh, sess_cookie,
                 loginGets, loginPosts, refreshCalls, lost, budget>>

\* Lines 254-260: the probe found a user and moves the upper bound up, or
\* found none and the binary search starts; an exception of pull_user
\* leaves find_latest_user.
ProbeRet ==
  /\ th[Main].pc = "probe_ret"
  /\ th' = [th EXCEPT ![Main] =
              IF th[Main].exc THEN [@ EXCEPT !.pc = "latest_raised"]
              ELSE IF th[Main].user # None
              THEN CallPullUser(
                     [@ EXCEPT !.upper_bound = Round12(th[Main].upper_bound)],
                     Round12(th[Main].upper_bound), "probe_ret")
              ELSE SearchStep(@)]
  /\ UNCHANGED <<configVars, walkVars, requests_since_refresh, sess_cookie,
                 loginGets, loginPosts, refreshCalls, lost, budget>>

\* Lines 263-270: the user in the middle was fetched.
SearchRet ==
  /\ th[Main].pc = "search_ret"
  /\ th' = [th EXCEPT ![Main] =
              IF th[Main].exc THEN [@ EXCEPT !.pc = "latest_raised"]
              ELSE LET found == th[Main].user # None
                       b == Narrow(th[Main].lower_bound, th[Main].upper_bound,
                                   th[Main].middle, found)
                   IN  SearchStep(
                         [@ EXCEPT
                            !.latest = IF found THEN th[Main].user ELSE @,
                            !.lower_bound = b.lower_bound,
                            !.upper_bound = b.upper_bound])]
  /\ UNCHANGED <<configVars, walkVars, requests_since_refresh, sess_cookie,
                 loginGets, loginPosts, refreshCalls, lost, budget>>

\* Lines 272-284: subscripting a user that is None raises; a user created
\* more than 30 minutes before now raises RuntimeError, any other is
\* returned.  The age of the user is the upstream's and the clock's.
LatestCheck ==
  /\ th[Main].pc = "latest_check"
  /\ \E stale \in BOOLEAN :
       th' = [th EXCEPT ![Main].pc =
                IF th[Main].latest = None THEN "latest_raised"
                ELSE IF stale THEN "latest_stale" ELSE "latest_done"]
  /\ UNCHANGED <<configVars, walkVars, requests_since_refresh, sess_cookie,
                 loginGets, loginPosts, refreshCalls, lost, budget>>

\* The highest existing IDs the search is run against: around its starting
\* point, at strides above it, around its first probe, and at its second
\* probe.
LatestKs ==
  {LowerBound + d : d \in (-1)..MaxAbove}
    \cup {LowerBound + Stride * d : d \in 1..MaxAbove}
    \cup {Round12(LowerBound) + d : d \in (-1)..MaxAbove}
    \cup {Round12(Round12(LowerBound))}

\* A client without credentials and an upstream that answers correctly, in
\* which the users up to K exist.
InitLatest ==
  /\ NoWalk
  /\ created_after = NoDate
  /\ username = ""
  /\ password = ""
  /\ threads = 1
  /\ credsValid = FALSE
  /\ correct = TRUE
  /\ honest = TRUE
  /\ K \in LatestKs
  /\ holes = {}
  /\ timeline = <<>>
  /\ requests_since_refresh = 0
  /\ sess_cookie = "unset"
  /\ th = [t \in ThreadIds |->
             IF t = Main THEN [IdleThread EXCEPT !.pc = "ready"]
             ELSE IdleThread]
  /\ loginGets = 0
  /\ loginPosts = 0
  /\ refreshCalls = 0
  /\ lost = FALSE
  /\ budget = Unlimited

NextLatest ==
  \/ FindLatestCall
  \/ Get(Main)
  \/ PullUserRet(Main)
  \/ ProbeRet
  \/ SearchRet
  \/ LatestCheck

SpecLatest == InitLatest /\ [][NextLatest]_vars

\* The calling thread keeps running and every request is answered or fails
\* (timeout = 30 and a bounded number of retries, lines 66-73).
SpecLatestFair == SpecLatest /\ WF_vars(NextLatest)

\* ----------------------------------------------------------------- C6
\* Entity i exists exactly when i <= K, and K is not below the search's
\* initial lower bound.
UpTo == correct /\ holes = {} /\ K >= LowerBound

\* The binary search has ended.
Selected == th[Main].pc \in {"latest_check", "latest_done", "latest_stale"}

\* C6: when entity i exists exactly when i <= K and the initial lower bound
\* is at most K, the probe and the binary search of find_latest_user end,
\* never by an error of the search, and the user selected is the one with
\* ID K.
C6_SelectsHighestExisting ==
  /\ [](UpTo => (/\ Selected => th[Main].latest = K
                 /\ th[Main].pc # "latest_raised"))
  /\ <>(UpTo => th[Main].pc \in {"latest_done", "latest_stale"})

\* The search has returned the user K after the probe moved the upper bound
\* up more than once.
C6_Witness ==
  /\ UpTo
  /\ th[Main].pc = "latest_done"
  /\ th[Main].latest = K
  /\ K > Round12(LowerBound)

\* ------------------------------------------------ the long walk
\* A users walk without posts, by one worker, over a range two IDs longer
\* than the refresh threshold, every ID of which exists; the client has no
\* credentials or accepted ones.
InitLongWalk ==
  /\ command = "posts"
  /\ first = 1
  /\ last = REQUESTS_PER_SESSION_REFRESH + 2
  /\ threads = 1
  /\ pull_posts = FALSE
  /\ \/ username = "" /\ password = ""
     \/ username = "gab_user" /\ password = "gab_pass"
  /\ credsValid = (username # "")
  /\ created_after = NoDate
  /\ depth = DefaultDepth
  /\ correct = TRUE
  /\ honest = TRUE
  /\ K = last
  /\ holes = {}
  /\ timeline = <<>>
  /\ requests_since_refresh = 0
  /\ sess_cookie = "unset"
  /\ th = [t \in ThreadIds |->
             IF t = Main THEN [IdleThread EXCEPT !.pc = "init"]
             ELSE IdleThread]
  /\ users = 0
  /\ f = <<>>
  /\ fut = <<>>
  /\ queue = <<>>
  /\ done = {}
  /\ users_file = EmptyBag
  /\ posts_file = EmptyBag
  /\ submitted = <<>>
  /\ consumed = 0
  /\ taskRaised = FALSE
  /\ loginGets = 0
  /\ loginPosts = 0
  /\ refreshCalls = 0
  /\ lost = FALSE
  /\ budget = Unlimited

NextLongWalk ==
  \/ ClientInit
  \/ InitAssign
  \/ CmdStart
  \/ SubmitInitial
  \/ AwaitAny
  \/ RefillPosts
  \/ WalkEnd
  \/ \E t \in ThreadIds :
       \/ LoginGet(t)
       \/ LoginPost(t)
       \/ WorkerTake(t)
       \/ Get(t)
       \/ GetAssign(t)
       \/ GetReset(t)
       \/ PullUserRet(t)
       \/ UserAndPosts(t)

SpecLongWalk == InitLongWalk /\ [][NextLongWalk]_vars

\* ----------------------------------------------------------------- C1
\* The size of the range [first, last].
RangeSize == Max(0, last - first + 1)

\* C1: in the users walk, the IDs submitted to the pool are first, first+1,
\* ... in this order, never past last (each ID of the range at most once,
\* none outside it); when the walk has ended and no task has raised, every
\* ID of the range has been submitted and the main loop has consumed as many
\* results as the range has IDs (none for first > last).
C1_UsersWalkCoversRange ==
  command = "posts" =>
     /\ Len(submitted) <= RangeSize
     /\ \A k \in DOMAIN submitted : submitted[k] = first + k - 1
     /\ (th[Main].pc = "done" /\ ~taskRaised) =>
           /\ Len(submitted) = RangeSize
           /\ consumed = RangeSize

\* A users walk of two workers that needed refills has ended.
C1_Witness ==
  /\ command = "posts"
  /\ th[Main].pc = "done"
  /\ ~taskRaised
  /\ threads = 2
  /\ consumed = last - first + 1
  /\ consumed > 2 * threads

\* ----------------------------------------------------------------- C2
\* C2: the groups walk over a non-empty range in which no fetch task raises
\* does not end in an error: the main loop is never left by an exception.
C2_GroupsWalkEndsNormally ==
  (command = "groups" /\ last >= first /\ ~taskRaised) =>
     th[Main].pc # "raised"

\* ----------------------------------------------------------------- C3
\* The IDs of the range that exist upstream.
Existing == {i \in first..last : Exists(i)}

\* C3: after a walk that ended normally against a correct upstream, the
\* entity output holds exactly one record for each existing ID of the range
\* and none for an absent one, and the post output only posts of entities
\* that were written.
C3_OutputsMatchUpstream ==
  (th[Main].pc = "done" /\ correct) =>
     /\ users_file = SetToBag(Existing)
     /\ \A q \in BagToSet(posts_file) :
          timeline[q].owner \in BagToSet(users_file)

\* ----------------------------------------------------------------- C4
\* The threads that are inside a session refresh started by _get.
Refreshing ==
  {t \in ThreadIds : /\ th[t].login_from = "refresh"
                     /\ th[t].pc \in {"login_get", "login_post",
                                      "get_assign", "get_reset"}}

\* C4: with accepted credentials and a correct upstream, a threshold
\* crossing starts exactly one refresh, also under concurrent callers: no
\* second refresh starts while one is in flight, no increment of
\* _requests_since_refresh is lost, and the one crossing these runs can
\* make starts one get_sess_cookie call.
C4_RefreshOncePerCrossing ==
  (correct /\ credsValid /\ budget # Unlimited) =>
     /\ Cardinality(Refreshing) <= 1
     /\ ~lost
     /\ refreshCalls <= 1

\* ----------------------------------------------------------------- C5
\* C5: a client created without username/password never issues a login
\* request, and its pull_user of an ID that exists upstream returns the
\* entity, whatever the number of earlier fetches.
C5_NoLoginWithoutCredentials ==
  (username = "" \/ password = "") =>
     /\ loginGets = 0
     /\ loginPosts = 0
     /\ \A t \in ThreadIds :
          (correct /\ th[t].pc = "client_ret" /\ Exists(th[t].id)) =>
             th[t].user = th[t].id

\* ---------------------------------------------------------------- C10
\* C10: get_sess_cookie ends in an error, never in a returned value, when
\* the sign-in page has no CSRF token (no meta tag, empty content), when the
\* GET or the POST fails with an HTTP error and when the POST response has
\* no _session_id cookie; without a CSRF token no POST is issued.
C10_LoginFailureRaises ==
  \A t \in ThreadIds :
     /\ th[t].login_case \in {"no_meta", "empty_csrf", "get_http_error",
                              "post_http_error", "no_session"}
          => th[t].login_outcome = "raised"
     /\ th[t].login_case \in {"no_meta", "empty_csrf"}
          => ~th[t].login_posted

\* ---------------------------------------------------------------- C11
\* C11: when posts are asked for and the client holds no session (a
\* credential is missing, or the login at construction gave none), no task
\* is ever submitted to the pool; with a credential missing, no login
\* request is made either.
C11_NoWalkWithoutSession ==
  /\ (pull_posts /\ sess_cookie # "cookie") => submitted = <<>>
  /\ (pull_posts /\ (username = "" \/ password = "")) =>
        /\ loginGets = 0
        /\ loginPosts = 0
        /\ requests_since_refresh = 0

\* ---------------------------------------------------------------- C12
\* C12: an authentication failure raised by a session refresh inside a
\* fetch task stays an exception of that task: the thread it was raised in
\* never goes on without it (as with an absent entity or an ended
\* pagination).
C12_RefreshFailureAborts ==
  \A t \in ThreadIds : th[t].refresh_failed => th[t].exc

\* C14: a fetch task that ended with an exception ends the walk when the main
\* loop consumes it: the iteration that takes a failed future out of the list
\* leaves the loop with the exception; once the walk has ended that way no
\* task is submitted and nothing more is written or consumed; and a walk one
\* of whose tasks raised never ends normally.
ConsumesFailed ==
  /\ th[Main].pc = "loop"
  /\ th'[Main].pc # "loop"
  /\ \E i \in Finished : fut[i].exc

C14_TaskFailureEndsWalk ==
  /\ [][ConsumesFailed => th'[Main].pc = "raised"]_vars
  /\ [][th[Main].pc = "raised" =>
          /\ th'[Main].pc = "raised"
          /\ submitted' = submitted
          /\ f' = f
          /\ consumed' = consumed
          /\ users_file' = users_file
          /\ posts_file' = posts_file]_vars
  /\ [](taskRaised => th[Main].pc # "done")

\* A users walk that a failed task ended while IDs were still unscheduled
\* and after a result had been consumed.
C14_Witness ==
  /\ command = "posts"
  /\ th[Main].pc = "raised"
  /\ taskRaised
  /\ users <= last
  /\ consumed >= 1

\* C15: pull_user and pull_group never raise: whatever the upstream answers
\* for an ID (absent, undecodable, a transport failure, any exception in the
\* fetch) they return to their caller without an exception, and no fetch
\* task of a walk ends with one.
C15_PullEntityNeverRaises ==
  /\ \A t \in ThreadIds :
        th[t].pc \in {"user_and_posts", "group_and_posts"} => ~th[t].exc
  /\ ~taskRaised

\* C16: in every state of a walk at most 2 * threads tasks are in flight
\* (submitted and not yet consumed); the initial submission leaves
\* min(2 * threads, range size) of them, and every refill after which
\* unscheduled IDs remain leaves 2 * threads.
InFlight == Len(f)

C16_InFlightBounded ==
  /\ [](InFlight <= 2 * threads)
  /\ [][(th[Main].pc = "submit" /\ th'[Main].pc # "submit") =>
          InFlight' = Min(2 * threads, RangeSize)]_vars
  /\ [][(th[Main].pc = "refill" /\ th'[Main].pc # "refill"
           /\ users' <= last) =>
          InFlight' = 2 * threads]_vars

\* C17: pull_group_posts(id, depth) requests the pages 1, 2, ... in that
\* order, each once, and never more than depth of them (none for depth <= 0);
\* after an empty page, an API error object, an undecodable body or a
\* transport failure it returns without another request.
PagesInOrder(t) ==
  /\ Len(th[t].sent) <= Max(0, depth)
  /\ \A k \in DOMAIN th[t].sent : th[t].sent[k] = k

PageIsTerminal(t) ==
  /\ th[t].pc = "group_posts_ret"
  /\ \/ th[t].exc
     \/ th[t].resp \in {"undecodable", "error_obj"}
     \/ th[t].body = {}

C17_GroupPostsPagesCapped ==
  /\ [](command = "groups" => \A t \in Workers : PagesInOrder(t))
  /\ [][\A t \in Workers :
          (PageIsTerminal(t) /\ th'[t] # th[t]) =>
             /\ th'[t].pc = "group_posts_done"
             /\ th'[t].sent = th[t].sent]_vars

\* A pagination that the cap ended: depth is 1, page 1 had posts and the
\* generator is exhausted after that one request.
C17_Witness ==
  \E t \in Workers :
    /\ th[t].pc = "group_posts_done"
    /\ depth = 1
    /\ th[t].sent = <<1>>
    /\ th[t].all_posts # <<>>

\* C18: a session refresh that fails leaves the shared session state usable:
\* a valid sess_cookie is never replaced by None, and after a refresh that
\* raised the counter is not left above the threshold, where every following
\* request would start another login.
C18_FailedRefreshKeepsSession ==
  /\ [][sess_cookie = "cookie" => sess_cookie' = "cookie"]_vars
  /\ [](\A t \in ThreadIds :
          th[t].refresh_failed =>
            requests_since_refresh <= REQUESTS_PER_SESSION_REFRESH)

\* C19: against an upstream with finitely many users find_latest_user ends in
\* one of two ways, returning a user that exists upstream or raising the
\* staleness error: it never ends with another error, in particular never by
\* subscripting a candidate that is None.
C19_LatestReturnsOrStale ==
  /\ [](th[Main].pc # "latest_raised")
  /\ [](th[Main].pc = "latest_check" => th[Main].latest # None)
  /\ [](th[Main].pc = "latest_done" => Exists(th[Main].latest))
  /\ <>(th[Main].pc \in {"latest_done", "latest_stale"})

====
